---- MODULE Spec2Model ----
(***************************************************************************)
(* Florilegium reading dashboard.                                          *)
(*                                                                         *)
(*   - GET /api/refresh, in its two variants (src/app/api/refresh)         *)
(*   - the Home page's fetch of the snapshot (src/app/page.tsx)            *)
(*   - PacingCalculator and AnnualReadingForecast (src/app/page.tsx)       *)
(*   - TBRRandomizer (src/app/page.tsx)                                    *)
(*   - GET /api/overview and the earlier Home (src/app/api/overview)       *)
(*   - the archived Vue front-end's router and sidebar (router.js)         *)
(*                                                                         *)
(* Numbers that the code holds as floating-point quotients are kept as     *)
(* exact fractions [num, den]; comparisons are cross-multiplied.           *)
(***************************************************************************)
EXTENDS Integers, Sequences, FiniteSets, TLC

VARIABLES
    \* ---- the data supplier, GET /api/refresh
    fs,             \* the backing files: location -> file state
    response,       \* the last response sent, with the files it was served from
    \* ---- the Home page
    data,           \* useState<Overview | null>(null)
    loading,        \* useState(true)
    apiUrl,         \* the endpoint this version of Home fetches
    fetchPc,        \* position of the fetch promise chain
    fetched,        \* the value r.json() resolved with, on its way to the handler
    fetchCount,     \* number of fetch('/api/refresh') calls issued
    errorLogged,    \* the .catch handler has run console.error
    activeSection,  \* useState('top')
    scrollY,        \* how far the window is scrolled, in px
    timers,         \* pending 1000 ms re-evaluations scheduled by scrollToSection
    \* ---- PacingCalculator
    books,          \* the books prop
    selectedBook,   \* useState<string>('')
    currentPage,    \* useState<number>(0)
    goalDate,       \* useState<string>('')
    timeframe,      \* useState('month')
    today,          \* new Date() of the last render, in ticks
    pacing,         \* calculatePacing() of the last render
    \* ---- TBRRandomizer
    tbrSelected,    \* its selectedBook: useState<... | null>(null)
    isSpinning,     \* useState(false)
    spinTimers,     \* pending 500 ms timeouts scheduled by pickRandomBook
    picks,          \* number of times pickRandomBook has been invoked
    \* ---- AnnualReadingForecast
    fdata,          \* the data prop
    currentMonth,   \* currentDate.getMonth() + 1 of the last render
    forecast,       \* what the last render computed
    \* ---- requests to the data supplier that run at the same time
    inflight,       \* request slot -> the request's local state
    \* ---- the archived Vue front-end: router and SidebarNavigation
    routerFile,     \* the router.js the application is built from
    router,         \* what evaluating that module gave
    history,        \* the browser's session history: the paths visited
    histPos,        \* the entry of the history that is shown
    isCollapsed,    \* SidebarNavigation's data
    \* ---- the figures of the dashboard
    ddata,          \* Home's data in the render of the dashboard
    figures         \* the percentages and chart stats of that render

refreshVars  == <<fs, response>>
pageVars     == <<apiUrl, data, loading, fetchPc, fetched, fetchCount, errorLogged,
                  activeSection, scrollY, timers>>
pacingVars   == <<books, selectedBook, currentPage, goalDate, timeframe, today, pacing>>
forecastVars == <<fdata, currentMonth, forecast>>
tbrVars      == <<tbrSelected, isSpinning, spinTimers, picks>>
concVars     == <<inflight>>
routerVars   == <<routerFile, router, history, histPos, isCollapsed>>
figureVars   == <<ddata, figures>>
vars == <<fs, response, apiUrl, data, loading, fetchPc, fetched, fetchCount, errorLogged,
          activeSection, scrollY, timers,
          books, selectedBook, currentPage, goalDate, timeframe, today, pacing,
          fdata, currentMonth, forecast,
          tbrSelected, isSpinning, spinTimers, picks, inflight,
          routerFile, router, history, histPos, isCollapsed, ddata, figures>>

\* JavaScript's null / undefined
Null == [null |-> TRUE]

(***************************************************************************)
(* Snapshot documents                                                      *)
(***************************************************************************)

\* the hard-coded fallback snapshot of the fallback variant
MockData ==
    [ totals |-> [books |-> 43, pages |-> 13760],
      byMonth |->
          << [month |-> "Jan", count |-> 4, pages |-> 1280],
          [month |-> "Feb", count |-> 3, pages |-> 960],
          [month |-> "Mar", count |-> 5, pages |-> 1600],
          [month |-> "Apr", count |-> 4, pages |-> 1280],
          [month |-> "May", count |-> 6, pages |-> 1920],
          [month |-> "Jun", count |-> 5, pages |-> 1600],
          [month |-> "Jul", count |-> 7, pages |-> 2240],
          [month |-> "Aug", count |-> 6, pages |-> 1920],
          [month |-> "Sep", count |-> 3, pages |-> 960],
          [month |-> "Oct", count |-> 0, pages |-> 0],
          [month |-> "Nov", count |-> 0, pages |-> 0],
          [month |-> "Dec", count |-> 0, pages |-> 0] >>,
      readingStats |-> [pagesPerDay |-> 50, pagesPerWeek |-> 350, pagesPerMonth |-> 1529, averageBookLength |-> 320, fastestRead |-> [pages |-> 400, days |-> 2], longestBook |-> 850],
      goals |-> [books |-> [annual |-> [current |-> 43, target |-> 60], monthly |-> [current |-> 3, target |-> 5]], pages |-> [annual |-> [current |-> 13760, target |-> 20000], monthly |-> [current |-> 960, target |-> 1500]]],
      currentlyReading |->
          << [title |-> "The Seven Husbands of Evelyn Hugo", author |-> "Taylor Jenkins Reid", progress |-> 65, totalPages |-> 400],
          [title |-> "Project Hail Mary", author |-> "Andy Weir", progress |-> 30, totalPages |-> 500],
          [title |-> "The Way of Kings", author |-> "Brandon Sanderson", progress |-> 15, totalPages |-> 1007] >>,
      topGenres |->
          << [name |-> "Fantasy", count |-> 5],
          [name |-> "Mystery", count |-> 3],
          [name |-> "Romance", count |-> 2],
          [name |-> "Sci-Fi", count |-> 2],
          [name |-> "Thriller", count |-> 2],
          [name |-> "Historical Fiction", count |-> 1] >>,
      topAuthors |->
          << [name |-> "Brandon Sanderson", count |-> 3],
          [name |-> "Agatha Christie", count |-> 2],
          [name |-> "Jane Austen", count |-> 2],
          [name |-> "Isaac Asimov", count |-> 1],
          [name |-> "Neil Gaiman", count |-> 1],
          [name |-> "Ursula K. Le Guin", count |-> 1] >>,
      lastYearTotals |-> [books |-> 52, pages |-> 16640],
      currentYearStart |-> "2024-01-01",
      longestBooksByGenre |->
          << [genre |-> "Fantasy", title |-> "The Way of Kings", author |-> "Brandon Sanderson", pages |-> 1007],
          [genre |-> "Mystery", title |-> "The Murder of Roger Ackroyd", author |-> "Agatha Christie", pages |-> 320],
          [genre |-> "Romance", title |-> "Pride and Prejudice", author |-> "Jane Austen", pages |-> 432] >>,
      consistentGenres |->
          << [name |-> "Fantasy", currentYear |-> 5, pastYears |-> 6, totalBooks |-> 11],
          [name |-> "Mystery", currentYear |-> 3, pastYears |-> 4, totalBooks |-> 7],
          [name |-> "Romance", currentYear |-> 2, pastYears |-> 3, totalBooks |-> 5] >>,
      consistentAuthors |->
          << [name |-> "Brandon Sanderson", currentYear |-> 3, pastYears |-> 4, totalBooks |-> 7],
          [name |-> "Agatha Christie", currentYear |-> 2, pastYears |-> 3, totalBooks |-> 5],
          [name |-> "Jane Austen", currentYear |-> 2, pastYears |-> 2, totalBooks |-> 4] >>,
      longestBooksByAuthor |->
          << [author |-> "Brandon Sanderson", title |-> "The Way of Kings", pages |-> 1007],
          [author |-> "Agatha Christie", title |-> "The Murder of Roger Ackroyd", pages |-> 320],
          [author |-> "Jane Austen", title |-> "Pride and Prejudice", pages |-> 432] >>,
      tbrList |->
          << [title |-> "The Midnight Library", author |-> "Matt Haig", genre |-> "Fiction"],
          [title |-> "Circe", author |-> "Madeline Miller", genre |-> "Fantasy"],
          [title |-> "The Seven Husbands of Evelyn Hugo", author |-> "Taylor Jenkins Reid", genre |-> "Historical Fiction"],
          [title |-> "Project Hail Mary", author |-> "Andy Weir", genre |-> "Sci-Fi"],
          [title |-> "The Way of Kings", author |-> "Brandon Sanderson", genre |-> "Fantasy"],
          [title |-> "Dune", author |-> "Frank Herbert", genre |-> "Sci-Fi"],
          [title |-> "The Silent Patient", author |-> "Alex Michaelides", genre |-> "Thriller"],
          [title |-> "Educated", author |-> "Tara Westover", genre |-> "Memoir"],
          [title |-> "The Book Thief", author |-> "Markus Zusak", genre |-> "Historical Fiction"],
          [title |-> "The Night Circus", author |-> "Erin Morgenstern", genre |-> "Fantasy"],
          [title |-> "Where the Crawdads Sing", author |-> "Delia Owens", genre |-> "Fiction"],
          [title |-> "The Alchemist", author |-> "Paulo Coelho", genre |-> "Fiction"] >> ]

\* the hard-coded snapshot of GET /api/overview
OverviewMock ==
    [ totals |-> [books |-> 12, pages |-> 3847],
      byMonth |->
          << [month |-> "Jan", count |-> 2],
          [month |-> "Feb", count |-> 1],
          [month |-> "Mar", count |-> 3],
          [month |-> "Apr", count |-> 2],
          [month |-> "May", count |-> 1],
          [month |-> "Jun", count |-> 3] >>,
      readingStats |-> [pagesPerDay |-> 15, pagesPerWeek |-> 105, pagesPerMonth |-> 450, averageBookLength |-> 320, fastestRead |-> [pages |-> 180, days |-> 3], longestBook |-> 650],
      goals |-> [books |-> [annual |-> [current |-> 12, target |-> 24], monthly |-> [current |-> 2, target |-> 4]], pages |-> [annual |-> [current |-> 1000, target |-> 2000], monthly |-> [current |-> 150, target |-> 200]]],
      currentlyReading |->
          << [title |-> "The Seven Husbands of Evelyn Hugo", author |-> "Taylor Jenkins Reid", progress |-> 65],
          [title |-> "Project Hail Mary", author |-> "Andy Weir", progress |-> 30],
          [title |-> "The Way of Kings", author |-> "Brandon Sanderson", progress |-> 15] >>,
      topGenres |->
          << [name |-> "Fantasy", count |-> 5],
          [name |-> "Mystery", count |-> 3],
          [name |-> "Romance", count |-> 2],
          [name |-> "Sci-Fi", count |-> 2] >>,
      topAuthors |->
          << [name |-> "Brandon Sanderson", count |-> 3],
          [name |-> "Agatha Christie", count |-> 2],
          [name |-> "Jane Austen", count |-> 2],
          [name |-> "Isaac Asimov", count |-> 1] >> ]

\* a snapshot document as the exporter writes it to a backing file
SnapshotA ==
    [ totals |-> [books |-> 30, pages |-> 9600],
      byMonth |-> << [month |-> "Jan", count |-> 12, pages |-> 4000],
                     [month |-> "Feb", count |-> 18, pages |-> 5600] >>,
      readingStats |-> [pagesPerDay |-> 40, pagesPerWeek |-> 280, pagesPerMonth |-> 1200,
                        averageBookLength |-> 320,
                        fastestRead |-> [pages |-> 200, days |-> 1], longestBook |-> 700],
      goals |-> [books |-> [annual |-> [current |-> 30, target |-> 50],
                            monthly |-> [current |-> 2, target |-> 0]],
                 pages |-> [annual |-> [current |-> 9600, target |-> 15000],
                            monthly |-> [current |-> 500, target |-> 1000]]],
      currentlyReading |->
          << [title |-> "Circe", author |-> "Madeline Miller", totalPages |-> 400] >>,
      topGenres |-> << [name |-> "Fantasy", count |-> 20] >>,
      topAuthors |-> << [name |-> "Frank Herbert", count |-> 6] >>,
      lastYearTotals |-> [books |-> 52, pages |-> 16640],
      longestBooksByGenre |-> << >>,
      consistentGenres |-> << >>,
      consistentAuthors |-> << >>,
      longestBooksByAuthor |-> << >>,
      tbrList |-> << [title |-> "Dune", author |-> "Frank Herbert", genre |-> "Sci-Fi"] >> ]

\* the error bodies of the not-found variant
ErrNotFound == [error |-> "No reading data found"]
ErrFailed   == [error |-> "Failed to load reading data"]

(***************************************************************************)
(* The backing files                                                       *)
(***************************************************************************)

\* the locations, by name
PublicPath == "public/structured_reading_data.json"
DataPath   == "data/structured_reading_data.json"
ParentPath == "../data/structured_reading_data.json"
Paths == {PublicPath, DataPath, ParentPath}

\* file texts a location may hold: three well-formed documents (a snapshot,
\* a document of another shape and the document null) and one malformed text
FileTexts == {"snapA", "list", "null", "garbage"}

\* a location holds nothing, something that exists but cannot be read (a
\* directory, a file without read permission, a file removed after the
\* existence check), or a readable text
Absent     == [kind |-> "absent"]
Unreadable == [kind |-> "unreadable"]
TextFile(t) == [kind |-> "text", text |-> t]
FileStates == {Absent, Unreadable} \cup {TextFile(t) : t \in FileTexts}

\* fs.existsSync
existsSync(f, p) == f[p].kind # "absent"

\* JSON.parse: the parsed value, or a thrown SyntaxError
JSONParse(t) ==
    CASE t = "snapA" -> [ok |-> TRUE, value |-> SnapshotA]
      [] t = "list"  -> [ok |-> TRUE, value |-> [items |-> << 1, 2 >>]]
      [] t = "null"  -> [ok |-> TRUE, value |-> Null]
      [] OTHER       -> [ok |-> FALSE]

\* JSON.parse(fs.readFileSync(p, 'utf8')): readFileSync throws on what cannot
\* be read, JSON.parse on what is malformed
ReadAndParse(f, p) ==
    IF f[p].kind = "text" THEN JSONParse(f[p].text) ELSE [ok |-> FALSE]

(***************************************************************************)
(* GET /api/refresh                                                        *)
(***************************************************************************)

\* NextResponse.json(body, {status}); the status defaults to 200
NextResponseJson(body, status) == [status |-> status, body |-> body]

\* The log line of the not-found variant,
\*   `... books=${publicData.totals?.books}, pages=${publicData.totals?.pages}`:
\* reading .totals of null throws a TypeError, of anything else it does not.
LogTotalsThrows(value) == value = Null

\* LoadNotFound going on to data/ when the file in public/ cannot be loaded
LoadNotFound_NextLocation(f, p) ==
    LET parsed == ReadAndParse(f, p)
        next   == ReadAndParse(f, DataPath)
    IN  IF parsed.ok /\ ~LogTotalsThrows(parsed.value)
        THEN NextResponseJson(parsed.value, 200)
        ELSE IF p = PublicPath /\ existsSync(f, DataPath)
                /\ next.ok /\ ~LogTotalsThrows(next.value)
        THEN NextResponseJson(next.value, 200)
        ELSE NextResponseJson(ErrFailed, 500)

\* What the not-found variant does with a location that exists: read, parse,
\* log, respond; anything thrown ends in the catch block's 500.
LoadNotFound(f, p) ==
    LET parsed == ReadAndParse(f, p)
    IN  IF parsed.ok /\ ~LogTotalsThrows(parsed.value)
        THEN NextResponseJson(parsed.value, 200)
        ELSE NextResponseJson(ErrFailed, 500)

\* GET_NotFound answering the missing file like a failed load
GET_NotFound_AsFailure(f) ==
    IF existsSync(f, PublicPath) THEN LoadNotFound(f, PublicPath)
    ELSE IF existsSync(f, DataPath) THEN LoadNotFound(f, DataPath)
    ELSE NextResponseJson(ErrFailed, 500)

\* The not-found variant: public/, then data/, then 404.
GET_NotFound(f) ==
    IF existsSync(f, PublicPath) THEN LoadNotFound(f, PublicPath)
    ELSE IF existsSync(f, DataPath) THEN LoadNotFound(f, DataPath)
    ELSE NextResponseJson(ErrNotFound, 404)

\* the fallback variant's list of locations, in the order it tries them
possiblePaths == << PublicPath, DataPath, ParentPath >>

\* FallbackLoop with the try block inside the loop: a location that cannot
\* be loaded is skipped
RECURSIVE FallbackLoop_SkipBroken(_, _)
FallbackLoop_SkipBroken(f, i) ==
    IF i > Len(possiblePaths)
    THEN NextResponseJson(MockData, 200)
    ELSE IF existsSync(f, possiblePaths[i]) /\ ReadAndParse(f, possiblePaths[i]).ok
    THEN NextResponseJson(ReadAndParse(f, possiblePaths[i]).value, 200)
    ELSE FallbackLoop_SkipBroken(f, i + 1)

\* The fallback variant's loop over possiblePaths from index i on: the first
\* location that exists is read and parsed and ends the request; a throw
\* leaves the try block for the catch block, which only logs, and the
\* request goes on to the mock data, as it does when the loop finds nothing.
RECURSIVE FallbackLoop(_, _)
FallbackLoop(f, i) ==
    IF i > Len(possiblePaths)
    THEN NextResponseJson(MockData, 200)
    ELSE IF existsSync(f, possiblePaths[i])
    THEN LET realData == ReadAndParse(f, possiblePaths[i])
         IN  IF realData.ok
             THEN NextResponseJson(realData.value, 200)
             ELSE NextResponseJson(MockData, 200)
    ELSE FallbackLoop(f, i + 1)

GET_Fallback(f) == FallbackLoop(f, 1)

Variants == {"notfound", "fallback"}

GET(v, f) == IF v = "notfound" THEN GET_NotFound(f) ELSE GET_Fallback(f)

\* GET_Overview answering with the fallback snapshot of /api/refresh
GET_Overview_FallbackMock == NextResponseJson(MockData, 200)

\* GET /api/overview: always its mock
GET_Overview == NextResponseJson(OverviewMock, 200)

NoResponse == [none |-> TRUE]

RefreshIdle == fs = [p \in Paths |-> Absent] /\ response = NoResponse

\* A request served by the variant v: the handler runs to completion on the
\* files as they are (it makes only synchronous calls) and writes nothing.
HandleRequest(v) ==
    /\ LET r == GET(v, fs)
       IN  response' = [variant |-> v, status |-> r.status, body |-> r.body, fsAt |-> fs]
    /\ UNCHANGED <<fs, pageVars, pacingVars, forecastVars,
                   tbrVars, concVars, routerVars, figureVars>>

RequestNotFound == HandleRequest("notfound")
RequestFallback == HandleRequest("fallback")

\* The deployment, not this program, creates, replaces and removes the
\* backing files between requests.
DeployFile ==
    \E p \in Paths, s \in FileStates :
        /\ s # fs[p]
        /\ fs' = [fs EXCEPT ![p] = s]
        /\ UNCHANGED <<response, pageVars, pacingVars, forecastVars,
                   tbrVars, concVars, routerVars, figureVars>>

(***************************************************************************)
(* Requests to GET /api/refresh that run at the same time                  *)
(***************************************************************************)

\* most requests in progress at once
MaxConcurrent == 2
Slots == 1..MaxConcurrent

NoRequest == [idle |-> TRUE]

ConcIdle == inflight = [s \in Slots |-> NoRequest]

\* the locations a variant tries, in its order
attemptPaths(v) == IF v = "notfound" THEN << PublicPath, DataPath >> ELSE possiblePaths

\* CurrentIndex with the loop position kept in one counter for all requests:
\* the advances of every running request add up
CurrentIndex_Shared(infl, s) ==
    LET advanced[k \in 0..MaxConcurrent] ==
            IF k = 0 THEN 0
            ELSE advanced[k - 1] +
                 (IF infl[k] # NoRequest /\ infl[k].resp = NoResponse
                  THEN infl[k].i - 1 ELSE 0)
    IN  1 + advanced[MaxConcurrent]

\* the location a request looks at next: a local of its own invocation of GET
CurrentIndex(infl, s) == infl[s].i

\* a request arrives and its handler starts
RequestArrives ==
    \E s \in Slots, v \in Variants :
        /\ inflight[s] = NoRequest
        /\ inflight' = [inflight EXCEPT ![s] = [variant |-> v, i |-> 1, resp |-> NoResponse]]
        /\ UNCHANGED <<refreshVars, pageVars, pacingVars, forecastVars, tbrVars, routerVars, figureVars>>

\* the handler looks at its next location: a file there ends the request,
\* with its content or with the variant's error outcome; past the last
\* location the request ends with 404 or with the mock data
CheckLocation ==
    \E s \in Slots :
        /\ inflight[s] # NoRequest
        /\ inflight[s].resp = NoResponse
        /\ LET v   == inflight[s].variant
               idx == CurrentIndex(inflight, s)
               ps  == attemptPaths(v)
           IN  IF idx <= Len(ps) /\ ~existsSync(fs, ps[idx])
               THEN inflight' = [inflight EXCEPT ![s].i = idx + 1]
               ELSE inflight' = [inflight EXCEPT ![s].resp =
                        IF idx > Len(ps)
                        THEN IF v = "notfound" THEN NextResponseJson(ErrNotFound, 404)
                                               ELSE NextResponseJson(MockData, 200)
                        ELSE IF v = "notfound" THEN LoadNotFound(fs, ps[idx])
                                               ELSE FallbackLoop(fs, idx)]
        /\ UNCHANGED <<refreshVars, pageVars, pacingVars, forecastVars, tbrVars, routerVars, figureVars>>

\* the response has gone out and the invocation is over
ResponseSent ==
    \E s \in Slots :
        /\ inflight[s] # NoRequest
        /\ inflight[s].resp # NoResponse
        /\ inflight' = [inflight EXCEPT ![s] = NoRequest]
        /\ UNCHANGED <<refreshVars, pageVars, pacingVars, forecastVars, tbrVars, routerVars, figureVars>>

(***************************************************************************)
(* Arithmetic on quotients                                                 *)
(***************************************************************************)

\* n / d as JavaScript computes it, held exactly; d > 0
Quotient(n, d) == [num |-> n, den |-> d]

\* QuotientLeq with the comparison made strict
QuotientLeq_Strict(q, k) == q.num < k * q.den

\* q <= k, for an integer k
QuotientLeq(q, k) == q.num <= k * q.den

\* q * k and k + q, for an integer k
QuotientTimes(q, k) == [num |-> q.num * k, den |-> q.den]
QuotientPlus(k, q) == [num |-> k * q.den + q.num, den |-> q.den]

\* MathCeil rounding down instead of up
MathCeil_Floor(q) == q.num \div q.den

\* Math.ceil
MathCeil(q) == -((-q.num) \div q.den)

\* MathRound cutting the fraction off
MathRound_Trunc(q) == q.num \div q.den

\* Math.round: the nearest integer, halves rounded up
MathRound(q) == (2 * q.num + q.den) \div (2 * q.den)

(***************************************************************************)
(* PacingCalculator                                                        *)
(***************************************************************************)

\* Time is counted in ticks of a quarter of a day; the code counts
\* milliseconds and divides by 1000 * 60 * 60 * 24.
TicksPerDay == 4

\* the latest time of a render, and the latest day the date input is given
MaxNow == 5
MaxGoalDay == 2

\* the books prop: data?.currentlyReading || [].  Titles need not be unique.
BookLists ==
    { << >>,
      << [title |-> "Circe", totalPages |-> 400], [title |-> "Dune", totalPages |-> 60] >>,
      << [title |-> "Emma", totalPages |-> 60], [title |-> "Emma", totalPages |-> 400] >> }

Titles(bks) == {bks[i].title : i \in 1..Len(bks)}

\* books.find(book => book.title === selectedBook): the first match, or
\* undefined
selectedBookData(bks, sel) ==
    IF \E i \in 1..Len(bks) : bks[i].title = sel
    THEN bks[CHOOSE i \in 1..Len(bks) :
                /\ bks[i].title = sel
                /\ \A j \in 1..(i - 1) : bks[j].title # sel]
    ELSE Null

\* the value of the date input: '' or a day, counted from the model's day 0
NoGoalDate == [empty |-> TRUE]
DateString(d) == [empty |-> FALSE, day |-> d]
GoalDates == {NoGoalDate} \cup {DateString(d) : d \in 0..MaxGoalDay}

Timeframes == {"week", "month", "year", "custom"}

\* What setDate(+7), setMonth(+1) and setFullYear(+1) add to today, in
\* ticks: seven days, the length of the current month, the length of the
\* year; a week that crosses a change of the clock is one tick off.
GoalOffsets(tf) ==
    CASE tf = "week"  -> {7 * TicksPerDay - 1, 7 * TicksPerDay, 7 * TicksPerDay + 1}
      [] tf = "month" -> {28 * TicksPerDay, 31 * TicksPerDay}
      [] tf = "year"  -> {365 * TicksPerDay, 366 * TicksPerDay}
      [] OTHER        -> {0}

\* getGoalDate: the time of the goal, or null for 'custom' without a date;
\* new Date('YYYY-MM-DD') is the midnight that starts that day
getGoalDate(tf, gd, now, off) ==
    IF tf = "custom"
    THEN IF gd = NoGoalDate THEN Null ELSE [time |-> gd.day * TicksPerDay]
    ELSE [time |-> now + off]

\* toLocaleDateString(): the day the time falls in
toLocaleDateString(t) == t \div TicksPerDay

\* calculatePacing counting the current page among the pages left
calculatePacing_Inclusive(bks, sel, cp, tf, gd, now, off) ==
    LET book == selectedBookData(bks, sel)
    IN  IF book = Null THEN Null
        ELSE IF cp <= 0 \/ cp >= book.totalPages THEN Null
        ELSE LET goalDateObj == getGoalDate(tf, gd, now, off)
             IN  IF goalDateObj = Null THEN Null
                 ELSE LET daysRemaining == MathCeil(Quotient(goalDateObj.time - now, TicksPerDay))
                          pagesRemaining == book.totalPages - cp + 1
                          pagesPerDay == Quotient(pagesRemaining, daysRemaining)
                      IN  IF daysRemaining <= 0 THEN Null
                          ELSE [ daysRemaining  |-> daysRemaining,
                                 pagesRemaining |-> pagesRemaining,
                                 pagesPerDay    |-> pagesPerDay,
                                 isRealistic    |-> QuotientLeq(pagesPerDay, 50),
                                 isEasy         |-> QuotientLeq(pagesPerDay, 20),
                                 goalDate       |-> toLocaleDateString(goalDateObj.time) ]

calculatePacing(bks, sel, cp, tf, gd, now, off) ==
    LET book == selectedBookData(bks, sel)
    IN  IF book = Null THEN Null
        ELSE IF cp <= 0 \/ cp >= book.totalPages THEN Null
        ELSE LET goalDateObj == getGoalDate(tf, gd, now, off)
             IN  IF goalDateObj = Null THEN Null
                 ELSE LET daysRemaining == MathCeil(Quotient(goalDateObj.time - now, TicksPerDay))
                          pagesRemaining == book.totalPages - cp
                          pagesPerDay == Quotient(pagesRemaining, daysRemaining)
                      IN  IF daysRemaining <= 0 THEN Null
                          ELSE [ daysRemaining  |-> daysRemaining,
                                 pagesRemaining |-> pagesRemaining,
                                 pagesPerDay    |-> pagesPerDay,
                                 isRealistic    |-> QuotientLeq(pagesPerDay, 50),
                                 isEasy         |-> QuotientLeq(pagesPerDay, 20),
                                 goalDate       |-> toLocaleDateString(goalDateObj.time) ]

\* the badge shown with a result
Badge(p) ==
    IF p.isEasy THEN "Easy Goal"
    ELSE IF p.isRealistic THEN "Challenging Goal" ELSE "Ambitious Goal"

\* What may be typed into the current-page input: nothing, an integer, or a
\* number with a fractional part.
PageNumbers == {-1, 0, 1, 9, 10, 39, 40, 59, 60, 61, 399, 400}
PageInputs ==
    {[kind |-> "empty", n |-> 0]}
        \cup {[kind |-> "int", n |-> n] : n \in PageNumbers}
        \cup {[kind |-> "decimal", n |-> n] : n \in {0, 9}}

\* parseInt(e.target.value): NaN for the empty string, else the integer the
\* text starts with
parseInt(input) ==
    IF input.kind = "empty" THEN [nan |-> TRUE, n |-> 0] ELSE [nan |-> FALSE, n |-> input.n]

\* x || 0
OrZero(x) == IF x.nan \/ x.n = 0 THEN 0 ELSE x.n

PacingIdle ==
    /\ books = << >> /\ selectedBook = "" /\ currentPage = 0
    /\ goalDate = NoGoalDate /\ timeframe = "month" /\ today = 0 /\ pacing = Null

\* Every change of state re-renders the component at a time not before the
\* last render; the render reads the clock and computes the pacing anew.
Render(sel, cp, tf, gd) ==
    \E now \in {today, today + 1}, off \in GoalOffsets(tf) :
        /\ now <= MaxNow
        /\ today' = now
        /\ pacing' = calculatePacing(books, sel, cp, tf, gd, now, off)

\* SelectBook without setCurrentPage(0)
SelectBook_KeepsPage ==
    \E t \in {""} \cup Titles(books) :
        /\ t # selectedBook \/ Cardinality({i \in 1..Len(books) : books[i].title = t}) > 1
        /\ selectedBook' = t
        /\ Render(t, currentPage, timeframe, goalDate)
        /\ UNCHANGED <<books, currentPage, goalDate, timeframe, refreshVars, pageVars,
                       forecastVars, tbrVars, concVars, routerVars, figureVars>>

\* the book selector's onChange
SelectBook ==
    \E t \in {""} \cup Titles(books) :
        /\ t # selectedBook \/ Cardinality({i \in 1..Len(books) : books[i].title = t}) > 1
        /\ selectedBook' = t
        /\ currentPage' = 0
        /\ Render(t, 0, timeframe, goalDate)
        /\ UNCHANGED <<books, goalDate, timeframe, refreshVars, pageVars, forecastVars,
                   tbrVars, concVars, routerVars, figureVars>>

\* the current-page input's onChange; the input exists only with a book
SetCurrentPage ==
    \E input \in PageInputs :
        /\ selectedBookData(books, selectedBook) # Null
        /\ currentPage' = OrZero(parseInt(input))
        /\ Render(selectedBook, currentPage', timeframe, goalDate)
        /\ UNCHANGED <<books, selectedBook, goalDate, timeframe, refreshVars, pageVars, forecastVars,
                   tbrVars, concVars, routerVars, figureVars>>

\* a click on one of the four timeframe buttons
SetTimeframe ==
    \E tf \in Timeframes :
        /\ tf # timeframe
        /\ timeframe' = tf
        /\ Render(selectedBook, currentPage, tf, goalDate)
        /\ UNCHANGED <<books, selectedBook, currentPage, goalDate, refreshVars, pageVars, forecastVars,
                   tbrVars, concVars, routerVars, figureVars>>

\* the date input's onChange; the input exists only for 'custom'
SetGoalDate ==
    \E gd \in GoalDates :
        /\ timeframe = "custom"
        /\ gd # goalDate
        /\ goalDate' = gd
        /\ Render(selectedBook, currentPage, timeframe, gd)
        /\ UNCHANGED <<books, selectedBook, currentPage, timeframe, refreshVars, pageVars, forecastVars,
                   tbrVars, concVars, routerVars, figureVars>>

\* a re-render caused by the parent, later than the last one
Rerender ==
    /\ today < MaxNow
    /\ \E off \in GoalOffsets(timeframe) :
        /\ today' = today + 1
        /\ pacing' = calculatePacing(books, selectedBook, currentPage, timeframe, goalDate, today + 1, off)
    /\ UNCHANGED <<books, selectedBook, currentPage, goalDate, timeframe, refreshVars, pageVars, forecastVars,
                   tbrVars, concVars, routerVars, figureVars>>

(***************************************************************************)
(* AnnualReadingForecast                                                   *)
(***************************************************************************)

\* year-to-date totals and last year's totals a snapshot may carry
TotalsBooks == {0, 1, 3, 30, 43}
TotalsPages == {0, 1, 4, 320, 9600, 13760}
LastYearTotals == { [books |-> 52, pages |-> 16640], [books |-> 7, pages |-> 1001],
                    [books |-> 0, pages |-> 0] }

\* the data prop once the snapshot is there; lastYearTotals is optional
ForecastSnapshots ==
    {[totals |-> [books |-> b, pages |-> p]] : b \in TotalsBooks, p \in TotalsPages}
        \cup {[totals |-> [books |-> b, pages |-> p], lastYearTotals |-> l] :
                 b \in TotalsBooks, p \in TotalsPages, l \in LastYearTotals}

\* completedMonthsOf counting the current month as completed
completedMonthsOf_Current(month) == month

\* months that have fully passed, and months left in the year, for
\* currentMonth = getMonth() + 1
completedMonthsOf(month) == month - 1
\* monthsRemainingOf counting the current month among the months left
monthsRemainingOf_Inclusive(month) == 12 - (month - 1)
monthsRemainingOf(month) == 12 - month

\* data.lastYearTotals?.books || 0, and the same for pages
lastYearBooks(d) == IF "lastYearTotals" \in DOMAIN d THEN d.lastYearTotals.books ELSE 0
lastYearPages(d) == IF "lastYearTotals" \in DOMAIN d THEN d.lastYearTotals.pages ELSE 0

\* the January branch: last year's total / 12, and Math.round(rate * 12)
JanuaryRate(lastYear) == Quotient(lastYear, 12)
\* JanuaryEstimate rounding the monthly rate before multiplying
JanuaryEstimate_RoundFirst(lastYear) == MathRound(JanuaryRate(lastYear)) * 12
JanuaryEstimate(lastYear) == MathRound(QuotientTimes(JanuaryRate(lastYear), 12))

\* the other branch: total / completedMonths (0 when no month has passed),
\* and Math.round(total + rate * monthsRemaining)
RunRate(total, completedMonths) ==
    IF completedMonths > 0 THEN Quotient(total, completedMonths) ELSE Quotient(0, 1)

\* Projection without the year-to-date total: only what is still to come
Projection_ToCome(total, completedMonths, monthsRemaining) ==
    MathRound(QuotientTimes(RunRate(total, completedMonths), monthsRemaining))

\* Math.round(total + rate * monthsRemaining)
Projection(total, completedMonths, monthsRemaining) ==
    MathRound(QuotientPlus(total, QuotientTimes(RunRate(total, completedMonths), monthsRemaining)))

\* averageBookLengthOf without the guard on totals.books
averageBookLengthOf_NoBooksGuard(totals) ==
    IF totals.pages # 0
    THEN Quotient(totals.pages, totals.books) ELSE Quotient(320, 1)

\* (totals.books > 0 && totals.pages) ? totals.pages / totals.books : 320
averageBookLengthOf(totals) ==
    IF totals.books > 0 /\ totals.pages # 0
    THEN Quotient(totals.pages, totals.books) ELSE Quotient(320, 1)

\* estimatedBooksFromPagesOf dividing by the default book length of 320
estimatedBooksFromPagesOf_Default(estimatedPages, avg) ==
    MathRound(Quotient(estimatedPages, 320))

\* Math.round(estimatedPages / averageBookLength)
estimatedBooksFromPagesOf(estimatedPages, avg) ==
    MathRound(Quotient(estimatedPages * avg.den, avg.num))

\* what the component computes when rendered in the given month
AnnualReadingForecast(d, month) ==
    IF d = Null THEN Null
    ELSE LET completedMonths == completedMonthsOf(month)
             monthsRemaining == monthsRemainingOf(month)
             isJanuary == month = 1
             booksPerMonth == IF isJanuary THEN JanuaryRate(lastYearBooks(d))
                              ELSE RunRate(d.totals.books, completedMonths)
             pagesPerMonth == IF isJanuary THEN JanuaryRate(lastYearPages(d))
                              ELSE RunRate(d.totals.pages, completedMonths)
             estimatedBooks == IF isJanuary THEN JanuaryEstimate(lastYearBooks(d))
                               ELSE Projection(d.totals.books, completedMonths, monthsRemaining)
             estimatedPages == IF isJanuary THEN JanuaryEstimate(lastYearPages(d))
                               ELSE Projection(d.totals.pages, completedMonths, monthsRemaining)
             averageBookLength == averageBookLengthOf(d.totals)
         IN  [ completedMonths |-> completedMonths,
               monthsRemaining |-> monthsRemaining,
               isJanuary |-> isJanuary,
               booksPerMonth |-> booksPerMonth,
               pagesPerMonth |-> pagesPerMonth,
               estimatedBooks |-> estimatedBooks,
               estimatedPages |-> estimatedPages,
               averageBookLength |-> averageBookLength,
               estimatedBooksFromPages |->
                   estimatedBooksFromPagesOf(estimatedPages, averageBookLength) ]

ForecastIdle == fdata = Null /\ currentMonth = 1 /\ forecast = Null

\* the snapshot arrives and the component renders from it
ForecastReceive ==
    /\ fdata = Null
    /\ fdata' \in ForecastSnapshots
    /\ forecast' = AnnualReadingForecast(fdata', currentMonth)
    /\ UNCHANGED <<currentMonth, refreshVars, pageVars, pacingVars,
                   tbrVars, concVars, routerVars, figureVars>>

\* a render in the month after the last render's
ForecastNextMonth ==
    /\ currentMonth' = (currentMonth % 12) + 1
    /\ forecast' = AnnualReadingForecast(fdata, currentMonth')
    /\ UNCHANGED <<fdata, refreshVars, pageVars, pacingVars,
                   tbrVars, concVars, routerVars, figureVars>>

(***************************************************************************)
(* The Home page                                                           *)
(***************************************************************************)

\* every response the data supplier can give, over all variants and files
ServerResponses == {GET(v, f) : v \in Variants, f \in [Paths -> FileStates]}

\* the endpoint fetched by Home and by its earlier version
RefreshUrl  == "/api/refresh"
OverviewUrl == "/api/overview"
ApiUrls == {RefreshUrl, OverviewUrl}

\* the responses a fetch of url can get
ResponsesOf(url) == IF url = RefreshUrl THEN ServerResponses ELSE {GET_Overview}

\* the fields of data the dashboard reads without a guard when data is not
\* null (data?.totals.books, data?.byMonth.reduce, data?.topGenres.map, ...)
RenderReads == {"totals", "byMonth", "readingStats", "goals", "topGenres", "topAuthors",
                "consistentGenres", "longestBooksByGenre", "consistentAuthors",
                "longestBooksByAuthor"}

\* what Home renders: the loading dots while loading, then the dashboard,
\* empty when data is null; reading a field of undefined throws in the render
HomeView(ld, d) ==
    IF ld THEN "loading"
    ELSE IF d = Null THEN "empty"
    ELSE IF RenderReads \subseteq DOMAIN d THEN "dashboard"
    ELSE "crashed"

\* the sections, in the order handleScroll lists them
sections == << "top", "stats", "goals", "genres", "authors", "predictions" >>
headerHeight == 80

\* where each section starts in the document, in px, and the scroll
\* positions the model visits
offsetTop == [top |-> 0, stats |-> 700, goals |-> 1500, genres |-> 2200,
              authors |-> 2200, predictions |-> 3000]
ScrollPositions == {0, 569, 570, 1370, 2070, 2920}

\* document.getElementById(id) finds the section only in the rendered dashboard
ElementExists(view) == view \in {"empty", "dashboard"}

\* RectTop measured from the top of the document, whatever the scroll position
RectTop_InDocument(id, y) == offsetTop[id]

\* element.getBoundingClientRect().top
RectTop(id, y) == offsetTop[id] - y

\* handleScroll's loop from index i down: the last section that exists and
\* starts at most headerHeight + 50 px below the top of the window becomes
\* the active one; without such a section nothing is set
RECURSIVE handleScrollFrom(_, _, _, _)
handleScrollFrom(i, active, view, y) ==
    IF i < 1 THEN active
    ELSE IF ElementExists(view) /\ RectTop(sections[i], y) <= headerHeight + 50
    THEN sections[i]
    ELSE handleScrollFrom(i - 1, active, view, y)

\* handleScroll clearing the active section when no section qualifies
handleScroll_Clears(active, view, y) == handleScrollFrom(Len(sections), "", view, y)

\* the listener of the scroll effect, and the same function of the timeout
handleScroll(active, view, y) == handleScrollFrom(Len(sections), active, view, y)

\* most re-evaluations pending at once
MaxTimers == 2

PageIdle ==
    /\ apiUrl = RefreshUrl
    /\ data = Null /\ loading = TRUE /\ fetchPc = "init" /\ fetched = Null
    /\ fetchCount = 0 /\ errorLogged = FALSE
    /\ activeSection = "top" /\ scrollY = 0 /\ timers = 0

\* the mount effect: fetch(apiUrl)
Mount ==
    /\ fetchPc = "init"
    /\ fetchPc' = "pending"
    /\ fetchCount' = fetchCount + 1
    /\ UNCHANGED <<data, loading, fetched, errorLogged, activeSection, scrollY, timers,
                   apiUrl, refreshVars, pacingVars, forecastVars,
                   tbrVars, concVars, routerVars, figureVars>>

\* the request fails on the network: fetch rejects
FetchNetworkError ==
    /\ fetchPc = "pending"
    /\ fetchPc' = "rejected"
    /\ UNCHANGED <<data, loading, fetched, fetchCount, errorLogged, activeSection, scrollY,
                   timers, apiUrl, refreshVars, pacingVars, forecastVars,
                   tbrVars, concVars, routerVars, figureVars>>

\* a response arrives whose body is not JSON: r.json() rejects
FetchBodyNotJson ==
    /\ fetchPc = "pending"
    /\ fetchPc' = "rejected"
    /\ UNCHANGED <<data, loading, fetched, fetchCount, errorLogged, activeSection, scrollY,
                   timers, apiUrl, refreshVars, pacingVars, forecastVars,
                   tbrVars, concVars, routerVars, figureVars>>

\* a response of the data supplier arrives, whatever its status: r.json()
\* resolves with its body
FetchResponds ==
    \E r \in ResponsesOf(apiUrl) :
        /\ fetchPc = "pending"
        /\ fetched' = r.body
        /\ fetchPc' = "parsed"
        /\ UNCHANGED <<data, loading, fetchCount, errorLogged, activeSection, scrollY, timers,
                       apiUrl, refreshVars, pacingVars, forecastVars,
                   tbrVars, concVars, routerVars, figureVars>>

\* <PacingCalculator books={data?.currentlyReading || []} />
currentlyReadingOf(d) ==
    IF d # Null /\ "currentlyReading" \in DOMAIN d THEN d.currentlyReading ELSE << >>

\* .then(data => { console.log(... data.totals?.books ...); setData(data) }):
\* the log line throws on null, before setData; the earlier version is
\* .then(setData), without the log line.  The props that the dashboard
\* derives from data follow it.
ThenHandler ==
    /\ fetchPc = "parsed"
    /\ IF apiUrl = RefreshUrl /\ fetched = Null
       THEN fetchPc' = "rejected" /\ data' = data
       ELSE fetchPc' = "fulfilled" /\ data' = fetched
    /\ books' = IF apiUrl = RefreshUrl THEN currentlyReadingOf(data') ELSE books
    /\ UNCHANGED <<loading, fetched, fetchCount, errorLogged, activeSection, scrollY, timers,
                   apiUrl, selectedBook, currentPage, goalDate, timeframe, today, pacing,
                   refreshVars, forecastVars, tbrVars, concVars, routerVars, figureVars>>

\* CatchHandler fetching once more after the first failure
CatchHandler_Retry ==
    /\ apiUrl = RefreshUrl
    /\ fetchPc = "rejected"
    /\ errorLogged' = TRUE
    /\ IF fetchCount < 2
       THEN fetchPc' = "pending" /\ fetchCount' = fetchCount + 1
       ELSE fetchPc' = "caught" /\ fetchCount' = fetchCount
    /\ UNCHANGED <<data, loading, fetched, activeSection, scrollY, timers,
                   apiUrl, refreshVars, pacingVars, forecastVars,
                   tbrVars, concVars, routerVars, figureVars>>

\* .catch(error => console.error(...)); the earlier version has no .catch
CatchHandler ==
    /\ apiUrl = RefreshUrl
    /\ fetchPc = "rejected"
    /\ errorLogged' = TRUE
    /\ fetchPc' = "caught"
    /\ UNCHANGED <<data, loading, fetched, fetchCount, activeSection, scrollY, timers,
                   apiUrl, refreshVars, pacingVars, forecastVars,
                   tbrVars, concVars, routerVars, figureVars>>

\* FinallyHandler attached as a second .then: it runs on success only
FinallyHandler_OnSuccess ==
    /\ fetchPc = "fulfilled"
    /\ loading' = FALSE
    /\ fetchPc' = "done"
    /\ UNCHANGED <<data, fetched, fetchCount, errorLogged, activeSection, scrollY, timers,
                   apiUrl, refreshVars, pacingVars, forecastVars,
                   tbrVars, concVars, routerVars, figureVars>>

\* .finally(() => setLoading(false)): runs when the chain before it has
\* settled, fulfilled or rejected
FinallyHandler ==
    /\ \/ fetchPc \in {"fulfilled", "caught"}
       \/ apiUrl = OverviewUrl /\ fetchPc = "rejected"
    /\ loading' = FALSE
    /\ fetchPc' = "done"
    /\ UNCHANGED <<data, fetched, fetchCount, errorLogged, activeSection, scrollY, timers,
                   apiUrl, refreshVars, pacingVars, forecastVars,
                   tbrVars, concVars, routerVars, figureVars>>

\* a scroll event: the window is somewhere else and the listener runs
Scroll ==
    \E y \in ScrollPositions :
        /\ apiUrl = RefreshUrl
        /\ y # scrollY
        /\ scrollY' = y
        /\ activeSection' = handleScroll(activeSection, HomeView(loading, data), y)
        /\ UNCHANGED <<data, loading, fetchPc, fetched, fetchCount, errorLogged, timers,
                       apiUrl, refreshVars, pacingVars, forecastVars,
                   tbrVars, concVars, routerVars, figureVars>>

\* a click on a navigation button: scrollToSection(sectionId).  The smooth
\* scroll it starts shows as later scroll events.
NavClick ==
    \E i \in 1..Len(sections) :
        /\ apiUrl = RefreshUrl
        /\ ElementExists(HomeView(loading, data))
        /\ timers < MaxTimers
        /\ activeSection' = sections[i]
        /\ timers' = timers + 1
        /\ UNCHANGED <<data, loading, fetchPc, fetched, fetchCount, errorLogged, scrollY,
                       apiUrl, refreshVars, pacingVars, forecastVars,
                   tbrVars, concVars, routerVars, figureVars>>

\* the re-evaluation scheduled 1000 ms after a click
TimerFires ==
    /\ timers > 0
    /\ timers' = timers - 1
    /\ activeSection' = handleScroll(activeSection, HomeView(loading, data), scrollY)
    /\ UNCHANGED <<data, loading, fetchPc, fetched, fetchCount, errorLogged, scrollY,
                   apiUrl, refreshVars, pacingVars, forecastVars,
                   tbrVars, concVars, routerVars, figureVars>>

(***************************************************************************)
(* TBRRandomizer                                                           *)
(***************************************************************************)

\* <TBRRandomizer tbrList={data?.tbrList || []} />
tbrListOf(d) == IF d # Null /\ "tbrList" \in DOMAIN d THEN d.tbrList ELSE << >>

\* most invocations of pickRandomBook in one page view
MaxPicks == 2

\* Math.random(): a number r with 0 <= r < 1, here k / RandomDen
RandomDen == 12
RandomValues == {Quotient(k, RandomDen) : k \in 0..(RandomDen - 1)}

\* Math.floor of a non-negative quotient
MathFloor(q) == q.num \div q.den

\* randomIndexOf drawing from all entries but the last
randomIndexOf_ShortByOne(r, n) == MathFloor(QuotientTimes(r, n - 1))

\* Math.floor(Math.random() * tbrList.length)
randomIndexOf(r, n) == MathFloor(QuotientTimes(r, n))

TbrIdle == tbrSelected = Null /\ isSpinning = FALSE /\ spinTimers = 0 /\ picks = 0

\* pickRandomBook without its guard on the empty list
pickRandomBook_NoGuard ==
    /\ apiUrl = RefreshUrl
    /\ ElementExists(HomeView(loading, data))
    /\ picks < MaxPicks
    /\ picks' = picks + 1
    /\ isSpinning' = TRUE
    /\ spinTimers' = spinTimers + 1
    /\ UNCHANGED <<tbrSelected, pageVars, refreshVars, pacingVars, forecastVars,
                   concVars, routerVars, figureVars>>

\* pickRandomBook: nothing on an empty list, else the spinner starts and a
\* 500 ms timeout is scheduled
pickRandomBook ==
    /\ apiUrl = RefreshUrl
    /\ ElementExists(HomeView(loading, data))
    /\ picks < MaxPicks
    /\ picks' = picks + 1
    /\ IF Len(tbrListOf(data)) = 0
       THEN UNCHANGED <<isSpinning, spinTimers>>
       ELSE isSpinning' = TRUE /\ spinTimers' = spinTimers + 1
    /\ UNCHANGED <<tbrSelected, pageVars, refreshVars, pacingVars, forecastVars,
                   concVars, routerVars, figureVars>>

\* tbrEntry reading the list from 1: index 0 is undefined
tbrEntry_FromOne(list, index) == IF index \in DOMAIN list THEN list[index] ELSE Null

\* tbrList[randomIndex]; past the end of the list it is undefined
tbrEntry(list, index) == IF index + 1 \in DOMAIN list THEN list[index + 1] ELSE Null

\* SpinTimerFires taking the selected entry off the list in data
SpinTimerFires_TakesEntry ==
    \E r \in RandomValues :
        /\ spinTimers > 0
        /\ spinTimers' = spinTimers - 1
        /\ tbrSelected' = tbrEntry(tbrListOf(data), randomIndexOf(r, Len(tbrListOf(data))))
        /\ isSpinning' = FALSE
        /\ data' = [data EXCEPT !.tbrList = SelectSeq(data.tbrList, LAMBDA b : b # tbrSelected')]
        /\ UNCHANGED <<picks, apiUrl, loading, fetchPc, fetched, fetchCount, errorLogged,
                       activeSection, scrollY, timers,
                       refreshVars, pacingVars, forecastVars, concVars, routerVars, figureVars>>

\* the timeout's callback: draws the index, selects the entry, stops the
\* spinner
SpinTimerFires ==
    \E r \in RandomValues :
        /\ spinTimers > 0
        /\ spinTimers' = spinTimers - 1
        /\ tbrSelected' = tbrEntry(tbrListOf(data), randomIndexOf(r, Len(tbrListOf(data))))
        /\ isSpinning' = FALSE
        /\ UNCHANGED <<picks, pageVars, refreshVars, pacingVars, forecastVars,
                       concVars, routerVars, figureVars>>

(***************************************************************************)
(* The figures of the dashboard: goal percentages, shares, chart stats     *)
(***************************************************************************)

\* goals, totals, lists of genres and authors, and months a snapshot may carry
BookGoals == { [current |-> 0, target |-> 0], [current |-> 2, target |-> 0],
               [current |-> 1, target |-> 8], [current |-> 43, target |-> 60],
               [current |-> 30, target |-> 20] }
PageGoals == { [current |-> 13760, target |-> 20000], [current |-> 500, target |-> 0],
               [current |-> 1, target |-> 3] }
BooksRead == {0, 3, 43}
GenreLists == { << >>, << [name |-> "Fantasy", count |-> 20] >>,
                << [name |-> "Fantasy", count |-> 5], [name |-> "Mystery", count |-> 3],
                   [name |-> "Romance", count |-> 2] >> }
AuthorLists == { << >>, << [name |-> "Brandon Sanderson", count |-> 3],
                           [name |-> "Agatha Christie", count |-> 2] >> }
MonthLists ==
    { << >>,
      << [month |-> "Jan", count |-> 0, pages |-> 0],
         [month |-> "Feb", count |-> 0, pages |-> 0] >>,
      << [month |-> "Jan", count |-> 1, pages |-> 1000],
         [month |-> "Feb", count |-> 3, pages |-> 800],
         [month |-> "Mar", count |-> 3, pages |-> 1200],
         [month |-> "Apr", count |-> 0, pages |-> 1200] >>,
      << [month |-> "Jan", count |-> 2, pages |-> 640],
         [month |-> "Feb", count |-> 2, pages |-> 640] >>,
      << [month |-> "Jan", count |-> 0, pages |-> 0],
         [month |-> "Feb", count |-> 1, pages |-> 0] >>,
      << [month |-> "Jan", count |-> 4, pages |-> 900],
         [month |-> "Feb", count |-> 2, pages |-> 1100],
         [month |-> "Mar", count |-> 1, pages |-> 300] >>,
      MockData.byMonth, SnapshotA.byMonth }

\* the snapshots the dashboard is rendered from
DashboardSnapshots ==
    { [MockData EXCEPT !.totals.books = b,
                       !.goals = [books |-> [annual |-> ba, monthly |-> bm],
                                  pages |-> [annual |-> pa, monthly |-> pm]],
                       !.topGenres = tg, !.topAuthors = ta, !.byMonth = ms] :
        b \in BooksRead, ba \in BookGoals, bm \in BookGoals, pa \in PageGoals,
        pm \in PageGoals, tg \in GenreLists, ta \in AuthorLists, ms \in MonthLists }

\* goalPercentOf showing a goal without a target as reached
goalPercentOf_FullWithoutTarget(goal) ==
    IF goal.target # 0
    THEN MathRound(QuotientTimes(Quotient(goal.current, goal.target), 100))
    ELSE 100

\* target ? Math.round((current / target) * 100) : 0, the "% complete" of a goal
goalPercentOf(goal) ==
    IF goal.target # 0
    THEN MathRound(QuotientTimes(Quotient(goal.current, goal.target), 100))
    ELSE 0

\* totalBooks ? Math.round((genre.count / totalBooks) * 100) : 0, and the
\* same for an author
percentageOf(count, totalBooks) ==
    IF totalBooks # 0
    THEN MathRound(QuotientTimes(Quotient(count, totalBooks), 100))
    ELSE 0

\* maxByCount taking a month that equals the maximum so far
maxByCount_OrEqual(max, month) == IF month.count >= max.count THEN month ELSE max

\* (max, month) => month.count > max.count ? month : max
maxByCount(max, month) == IF month.count > max.count THEN month ELSE max

\* (max, month) => month.pages > max.pages ? month : max
maxByPages(max, month) == IF month.pages > max.pages THEN month ELSE max

\* byMonth.reduce(..., { count: 0, month: 'None' }), from index i on
RECURSIVE mostBooksFrom(_, _, _)
mostBooksFrom(byMonth, i, max) ==
    IF i > Len(byMonth) THEN max
    ELSE mostBooksFrom(byMonth, i + 1, maxByCount(max, byMonth[i]))

\* byMonth.reduce(..., { pages: 0, month: 'None' }), from index i on
RECURSIVE mostPagesFrom(_, _, _)
mostPagesFrom(byMonth, i, max) ==
    IF i > Len(byMonth) THEN max
    ELSE mostPagesFrom(byMonth, i + 1, maxByPages(max, byMonth[i]))

\* what the dashboard shows of a snapshot d: the "% complete" of the four
\* goals, the share of every genre and author, and the two chart stats
Dashboard(d) ==
    LET mostBooks == mostBooksFrom(d.byMonth, 1, [count |-> 0, month |-> "None"])
        mostPages == mostPagesFrom(d.byMonth, 1, [pages |-> 0, month |-> "None"])
    IN  [ booksAnnual  |-> goalPercentOf(d.goals.books.annual),
          booksMonthly |-> goalPercentOf(d.goals.books.monthly),
          pagesAnnual  |-> goalPercentOf(d.goals.pages.annual),
          pagesMonthly |-> goalPercentOf(d.goals.pages.monthly),
          genres  |-> [i \in DOMAIN d.topGenres |->
                          percentageOf(d.topGenres[i].count, d.totals.books)],
          authors |-> [i \in DOMAIN d.topAuthors |->
                          percentageOf(d.topAuthors[i].count, d.totals.books)],
          mostBooks |-> [month |-> mostBooks.month, count |-> mostBooks.count],
          mostPages |-> [month |-> mostPages.month, pages |-> mostPages.pages] ]

FiguresIdle == ddata = Null /\ figures = Null

\* setData(data) with a snapshot, and the render that follows it
DashboardReceive ==
    /\ ddata = Null
    /\ ddata' \in DashboardSnapshots
    /\ figures' = Dashboard(ddata')
    /\ UNCHANGED <<refreshVars, pageVars, pacingVars, forecastVars,
                   tbrVars, concVars, routerVars>>

(***************************************************************************)
(* The archived Vue front-end: router.js and SidebarNavigation             *)
(***************************************************************************)

\* the versions of router.js
RouterSrc1    == "src/router.js (1)"
RouterSrc2    == "src/router.js (2)"
RouterArchive == "archive/src/router.js"
RouterFiles == {RouterSrc1, RouterSrc2, RouterArchive}

\* the identifiers a version imports its views under
Imported(file) ==
    IF file = RouterArchive
    THEN {"HomeView", "BookshelfView", "ProgressView", "AtoZView"}
    ELSE {"Home", "Bookshelf", "Progress", "AtoZ"}

\* const routes = [...]: the identifier each record names as its component
RouteTable(file) ==
    IF file = RouterSrc2
    THEN << [path |-> "/", component |-> "Home"],
            [path |-> "/bookshelf", component |-> "Bookshelf"],
            [path |-> "/progress", component |-> "Progress"],
            [path |-> "/atoz", component |-> "AtoZ"] >>
    ELSE << [path |-> "/", component |-> "HomeView"],
            [path |-> "/bookshelf", component |-> "BookshelfView"],
            [path |-> "/progress", component |-> "ProgressView"],
            [path |-> "/atoz", component |-> "AtoZView"] >>

\* Evaluating the module: building the routes array reads each component
\* identifier, and an identifier that was never declared throws a
\* ReferenceError, which ends the module and the application's start.
EvaluateRouter(file) ==
    IF \A i \in DOMAIN RouteTable(file) : RouteTable(file)[i].component \in Imported(file)
    THEN [routes |-> RouteTable(file)]
    ELSE [threw |-> "ReferenceError"]

\* the router exists and the application is mounted
Mounted(r) == r # Null /\ "routes" \in DOMAIN r

\* the paths a router matches
PathsOf(r) == {r.routes[i].path : i \in DOMAIN r.routes}

\* the to= of the sidebar's router-links, in their order
SidebarLinks == << "/", "/bookshelf", "/progress", "/atoz" >>

\* most entries of the session history
MaxHistory == 3

RouterIdle ==
    /\ routerFile = RouterSrc2 /\ router = Null
    /\ history = << "/" >> /\ histPos = 1 /\ isCollapsed = FALSE

\* the location shown
currentRoute == history[histPos]

\* main.js: import router, createApp(App), app.use(router), app.mount
StartApp ==
    /\ router = Null
    /\ router' = EvaluateRouter(routerFile)
    /\ UNCHANGED <<routerFile, history, histPos, isCollapsed,
                   refreshVars, pageVars, pacingVars, forecastVars, tbrVars, concVars, figureVars>>

\* toggleSidebar
toggleSidebar ==
    /\ Mounted(router)
    /\ isCollapsed' = ~isCollapsed
    /\ UNCHANGED <<routerFile, router, history, histPos,
                   refreshVars, pageVars, pacingVars, forecastVars, tbrVars, concVars, figureVars>>

\* a click on a router-link of the sidebar (shown while not collapsed):
\* router.push(to); a push to the current location is dropped, any other
\* one replaces the forward entries of the history
ClickLink ==
    \E k \in DOMAIN SidebarLinks :
        /\ Mounted(router)
        /\ ~isCollapsed
        /\ SidebarLinks[k] # currentRoute
        /\ histPos < MaxHistory
        /\ history' = Append(SubSeq(history, 1, histPos), SidebarLinks[k])
        /\ histPos' = histPos + 1
        /\ UNCHANGED <<routerFile, router, isCollapsed,
                       refreshVars, pageVars, pacingVars, forecastVars, tbrVars, concVars, figureVars>>

\* the browser's back and forward buttons
HistoryGo ==
    \E delta \in {-1, 1} :
        /\ Mounted(router)
        /\ histPos + delta \in DOMAIN history
        /\ histPos' = histPos + delta
        /\ UNCHANGED <<routerFile, router, history, isCollapsed,
                       refreshVars, pageVars, pacingVars, forecastVars, tbrVars, concVars, figureVars>>

(***************************************************************************)
(* Specifications                                                          *)
(***************************************************************************)

\* one page view of Home
Init == RefreshIdle /\ PageIdle /\ PacingIdle /\ ForecastIdle /\ TbrIdle /\ ConcIdle /\ RouterIdle /\ FiguresIdle

Next ==
    \/ Mount \/ FetchNetworkError \/ FetchBodyNotJson \/ FetchResponds
    \/ ThenHandler \/ CatchHandler \/ FinallyHandler
    \/ Scroll \/ NavClick \/ TimerFires
    \/ pickRandomBook \/ SpinTimerFires

Spec == Init /\ [][Next]_vars

\* the promise chain's handlers run once they can, and a timeout that was
\* scheduled fires
SpecLive ==
    Spec /\ WF_vars(ThenHandler) /\ WF_vars(CatchHandler) /\ WF_vars(FinallyHandler)
         /\ WF_vars(SpinTimerFires)

\* One page view of Home with the pacing calculator in it.  The visitor is
\* followed through one widget at a time: the calculator is used while the
\* navigation and the randomizer are as the page load left them, and these
\* are used while the calculator is.
PacingUntouched ==
    /\ selectedBook = "" /\ currentPage = 0 /\ goalDate = NoGoalDate
    /\ timeframe = "month" /\ today = 0 /\ pacing = Null

PageAtRest == activeSection = "top" /\ scrollY = 0 /\ timers = 0 /\ TbrIdle

OneAtATime == PacingUntouched \/ PageAtRest

\* an input to the pacing calculator, which is rendered with the dashboard
PacingInput ==
    /\ apiUrl = RefreshUrl
    /\ ElementExists(HomeView(loading, data))
    /\ SelectBook \/ SetCurrentPage \/ SetTimeframe \/ SetGoalDate \/ Rerender

NextView ==
    \/ Mount \/ FetchNetworkError \/ FetchBodyNotJson \/ FetchResponds
    \/ ThenHandler \/ CatchHandler \/ FinallyHandler
    \/ (Scroll /\ OneAtATime') \/ (NavClick /\ OneAtATime') \/ (TimerFires /\ OneAtATime')
    \/ (pickRandomBook /\ OneAtATime') \/ (SpinTimerFires /\ OneAtATime')
    \/ (PacingInput /\ OneAtATime')

SpecView == Init /\ [][NextView]_vars

\* the data supplier, over files the deployment changes between requests
InitRefresh == RefreshIdle /\ PageIdle /\ PacingIdle /\ ForecastIdle /\ TbrIdle /\ ConcIdle /\ RouterIdle /\ FiguresIdle

NextRefresh == RequestNotFound \/ RequestFallback \/ DeployFile

SpecRefresh == InitRefresh /\ [][NextRefresh]_vars

\* the pacing calculator, over the books it may be given
InitPacing ==
    /\ RefreshIdle /\ PageIdle /\ ForecastIdle /\ TbrIdle /\ ConcIdle /\ RouterIdle /\ FiguresIdle
    /\ books \in BookLists
    /\ selectedBook = "" /\ currentPage = 0 /\ goalDate = NoGoalDate
    /\ timeframe = "month" /\ today = 0 /\ pacing = Null

NextPacing == SelectBook \/ SetCurrentPage \/ SetTimeframe \/ SetGoalDate \/ Rerender

SpecPacing == InitPacing /\ [][NextPacing]_vars

\* the forecast, over the snapshots it may be given and the month of the visit
InitForecast ==
    /\ RefreshIdle /\ PageIdle /\ PacingIdle /\ TbrIdle /\ ConcIdle /\ RouterIdle /\ FiguresIdle
    /\ fdata = Null /\ forecast = Null
    /\ currentMonth \in 1..12

NextForecast == ForecastReceive \/ ForecastNextMonth

SpecForecast == InitForecast /\ [][NextForecast]_vars

\* Home and its earlier version, each from its mount on
InitHome ==
    /\ RefreshIdle /\ PacingIdle /\ ForecastIdle /\ TbrIdle /\ ConcIdle /\ RouterIdle /\ FiguresIdle
    /\ apiUrl \in ApiUrls
    /\ data = Null /\ loading = TRUE /\ fetchPc = "init" /\ fetched = Null
    /\ fetchCount = 0 /\ errorLogged = FALSE
    /\ activeSection = "top" /\ scrollY = 0 /\ timers = 0

SpecHome == InitHome /\ [][Next]_vars

SpecHomeLive ==
    SpecHome /\ WF_vars(ThenHandler) /\ WF_vars(CatchHandler) /\ WF_vars(FinallyHandler)

\* concurrent requests to the data supplier over files that stay as they are
InitConcurrent ==
    /\ PageIdle /\ PacingIdle /\ ForecastIdle /\ TbrIdle /\ ConcIdle /\ RouterIdle /\ FiguresIdle
    /\ fs \in [Paths -> FileStates]
    /\ response = NoResponse

NextConcurrent == RequestArrives \/ CheckLocation \/ ResponseSent

SpecConcurrent == InitConcurrent /\ [][NextConcurrent]_vars

\* the Vue front-end built from any of the versions of router.js
InitRouter ==
    /\ RefreshIdle /\ PageIdle /\ PacingIdle /\ ForecastIdle /\ TbrIdle /\ ConcIdle
    /\ FiguresIdle
    /\ routerFile \in RouterFiles
    /\ router = Null
    /\ history = << "/" >> /\ histPos = 1 /\ isCollapsed = FALSE

NextRouter == StartApp \/ toggleSidebar \/ ClickLink \/ HistoryGo

SpecRouter == InitRouter /\ [][NextRouter]_vars

\* the dashboard, over the snapshots it may be rendered from
InitDashboard ==
    /\ RefreshIdle /\ PageIdle /\ PacingIdle /\ ForecastIdle /\ TbrIdle /\ ConcIdle
    /\ RouterIdle /\ FiguresIdle

NextDashboard == DashboardReceive

SpecDashboard == InitDashboard /\ [][NextDashboard]_vars

(***************************************************************************)
(* Properties of the pacing calculator (checked under SpecPacing)          *)
(***************************************************************************)

\* the selected book, the page lies strictly inside it
ValidPage ==
    /\ selectedBookData(books, selectedBook) # Null
    /\ 0 < currentPage
    /\ currentPage < selectedBookData(books, selectedBook).totalPages

\* the goal lies after the time of the render: always so for a week, a
\* month and a year from now, and for a custom date when its midnight is
\* later than now
GoalAhead ==
    \/ timeframe # "custom"
    \/ goalDate # NoGoalDate /\ goalDate.day * TicksPerDay > today

\* C1: for a selected book, a current page strictly between 0 and its total
\* pages and a goal that gives daysRemaining > 0, there is a result, its
\* pagesRemaining is totalPages - currentPage and its pagesPerDay is
\* pagesRemaining / daysRemaining.
C1_PagesPerDay ==
    (ValidPage /\ GoalAhead) =>
        /\ pacing # Null
        /\ pacing.daysRemaining > 0
        /\ pacing.pagesRemaining =
               selectedBookData(books, selectedBook).totalPages - currentPage
        /\ pacing.pagesPerDay.num * pacing.daysRemaining =
               pacing.pagesRemaining * pacing.pagesPerDay.den

\* a result whose pages per day is not a whole number: 51 pages in 2 days
C1_Witness ==
    /\ ValidPage /\ GoalAhead /\ pacing # Null
    /\ pacing.pagesRemaining = 51 /\ pacing.daysRemaining = 2

\* C2: there is no result exactly when no book is selected, or the current
\* page is <= 0 or >= the total pages, or the timeframe is 'custom' without
\* a date, or the days remaining are <= 0 (the goal is not after now); a
\* book of 400 pages at page 0 gives no result.
C2_NoResult ==
    /\ (pacing = Null) <=>
          \/ selectedBook \notin Titles(books)
          \/ currentPage <= 0
          \/ currentPage >= selectedBookData(books, selectedBook).totalPages
          \/ timeframe = "custom" /\ goalDate = NoGoalDate
          \/ timeframe = "custom" /\ goalDate # NoGoalDate
                /\ goalDate.day * TicksPerDay <= today
    /\ (selectedBookData(books, selectedBook) # Null
          /\ selectedBookData(books, selectedBook).totalPages = 400
          /\ currentPage = 0) => pacing = Null

\* a valid page, but a custom date whose midnight is this very moment
C2_Witness ==
    /\ ValidPage /\ timeframe = "custom" /\ goalDate = DateString(1)
    /\ today = TicksPerDay /\ pacing = Null

\* C3: a result is 'Easy Goal' when pagesPerDay <= 20, 'Challenging Goal'
\* when 20 < pagesPerDay <= 50 and 'Ambitious Goal' when pagesPerDay > 50,
\* and isEasy implies isRealistic.
C3_Bands ==
    pacing # Null =>
        LET n == pacing.pagesPerDay.num
            d == pacing.pagesPerDay.den
        IN  /\ d > 0
            /\ (Badge(pacing) = "Easy Goal") <=> (n <= 20 * d)
            /\ (Badge(pacing) = "Challenging Goal") <=> (20 * d < n /\ n <= 50 * d)
            /\ (Badge(pacing) = "Ambitious Goal") <=> (n > 50 * d)
            /\ pacing.isEasy => pacing.isRealistic

\* exactly 50 pages a day is still a 'Challenging Goal'
C3_Witness ==
    /\ pacing # Null
    /\ pacing.pagesPerDay.num = 50 * pacing.pagesPerDay.den
    /\ Badge(pacing) = "Challenging Goal"

(***************************************************************************)
(* Properties of the forecast (checked under SpecForecast)                 *)
(***************************************************************************)

\* e is Math.round of x.num / x.den: e - 1/2 <= x < e + 1/2
IsRounded(e, x) ==
    /\ 2 * e * x.den - x.den <= 2 * x.num
    /\ 2 * x.num < 2 * e * x.den + x.den

\* total + rate * months, as a fraction
Projected(total, rate, months) ==
    [num |-> total * rate.den + rate.num * months, den |-> rate.den]

\* C4: outside January the monthly rate is the year-to-date total divided by
\* the completed months, and the estimate is round(total + rate x months
\* remaining), for books and for pages.
C4_RunRate ==
    (forecast # Null /\ currentMonth # 1) =>
        /\ forecast.completedMonths > 0
        /\ forecast.booksPerMonth.num * forecast.completedMonths =
               fdata.totals.books * forecast.booksPerMonth.den
        /\ forecast.pagesPerMonth.num * forecast.completedMonths =
               fdata.totals.pages * forecast.pagesPerMonth.den
        /\ IsRounded(forecast.estimatedBooks,
                     Projected(fdata.totals.books, forecast.booksPerMonth,
                               forecast.monthsRemaining))
        /\ IsRounded(forecast.estimatedPages,
                     Projected(fdata.totals.pages, forecast.pagesPerMonth,
                               forecast.monthsRemaining))

\* April, 43 books: 43 + 43/3 x 8 = 157.67, shown as 158
C4_Witness ==
    /\ forecast # Null /\ currentMonth = 4
    /\ fdata.totals.books = 43 /\ forecast.estimatedBooks = 158

\* C5, as stated: with six completed months and 30 books, booksPerMonth is 5
\* and estimatedBooks is 30 + 5 x 6 = 60.
C5_AsStated ==
    (forecast # Null /\ forecast.completedMonths = 6 /\ fdata.totals.books = 30) =>
        /\ forecast.booksPerMonth.num = 5 * forecast.booksPerMonth.den
        /\ forecast.estimatedBooks = 60

\* C5, amended: with six completed months (July) and 30 books, booksPerMonth
\* is 5, five months remain and estimatedBooks is 30 + 5 x 5 = 55.
C5_SixMonths ==
    (forecast # Null /\ forecast.completedMonths = 6 /\ fdata.totals.books = 30) =>
        /\ forecast.booksPerMonth.num = 5 * forecast.booksPerMonth.den
        /\ forecast.monthsRemaining = 5
        /\ forecast.estimatedBooks = 55

C5_Witness ==
    /\ forecast # Null /\ currentMonth = 7 /\ forecast.completedMonths = 6
    /\ fdata.totals.books = 30 /\ forecast.estimatedBooks = 55

\* C6: in January the rate is last year's totals / 12 and the estimates are
\* last year's totals (52 books for 52), whatever this year's totals are;
\* without lastYearTotals both estimates are 0.
C6_January ==
    (forecast # Null /\ currentMonth = 1) =>
        IF "lastYearTotals" \in DOMAIN fdata
        THEN /\ forecast.booksPerMonth.num * 12 =
                    fdata.lastYearTotals.books * forecast.booksPerMonth.den
             /\ forecast.pagesPerMonth.num * 12 =
                    fdata.lastYearTotals.pages * forecast.pagesPerMonth.den
             /\ forecast.estimatedBooks = fdata.lastYearTotals.books
             /\ forecast.estimatedPages = fdata.lastYearTotals.pages
        ELSE forecast.estimatedBooks = 0 /\ forecast.estimatedPages = 0

\* January, 52 books last year, 30 books already this year
C6_Witness ==
    /\ forecast # Null /\ currentMonth = 1
    /\ "lastYearTotals" \in DOMAIN fdata /\ fdata.lastYearTotals.books = 52
    /\ fdata.totals.books = 30 /\ forecast.estimatedBooks = 52

(***************************************************************************)
(* Properties of the data supplier (checked under SpecRefresh)             *)
(***************************************************************************)

\* the locations each variant knows, in their order of priority
KnownLocations(v) ==
    IF v = "notfound" THEN << PublicPath, DataPath >>
    ELSE << PublicPath, DataPath, ParentPath >>

\* the i-th known location exists and none before it does
IsFirstFound(v, f, i) ==
    /\ f[KnownLocations(v)[i]].kind # "absent"
    /\ \A j \in 1..(i - 1) : f[KnownLocations(v)[j]].kind = "absent"

\* a file holding a well-formed JSON document
WellFormed(file) == file.kind = "text" /\ JSONParse(file.text).ok

\* C7, as stated: the response is the parsed content of the first known
\* location that exists, unchanged whatever its shape, and never the content
\* of a location that comes after one that exists.
C7_FirstFound ==
    response # NoResponse =>
        LET v == response.variant
            f == response.fsAt
        IN  \A i \in 1..Len(KnownLocations(v)) :
                LET file == f[KnownLocations(v)[i]]
                IN  /\ (IsFirstFound(v, f, i) /\ WellFormed(file)) =>
                           /\ response.status = 200
                           /\ response.body = JSONParse(file.text).value
                    /\ (WellFormed(file) /\ response.body = JSONParse(file.text).value
                           /\ response.body \notin {MockData, ErrFailed, ErrNotFound}) =>
                           \A j \in 1..(i - 1) :
                               f[KnownLocations(v)[j]] \in {Absent, file}

\* C8: when no known location exists the response is 404 with the
\* not-found body (not-found variant) or the mock snapshot with status 200
\* (fallback variant), whatever was requested before.
C8_NoneFound ==
    (response # NoResponse
        /\ \A i \in 1..Len(KnownLocations(response.variant)) :
               response.fsAt[KnownLocations(response.variant)[i]] = Absent) =>
        \/ /\ response.variant = "notfound"
           /\ response.status = 404 /\ response.body = ErrNotFound
        \/ /\ response.variant = "fallback"
           /\ response.status = 200 /\ response.body = MockData

\* a 404 for files that were removed before the request and are back by now
C8_Witness ==
    /\ response # NoResponse /\ response.variant = "notfound"
    /\ \A p \in Paths : response.fsAt[p] = Absent
    /\ response.status = 404
    /\ fs[PublicPath] = TextFile("snapA")

\* the first known location that exists cannot be read or parsed
FirstFoundBroken(v, f) ==
    \E i \in 1..Len(KnownLocations(v)) :
        /\ IsFirstFound(v, f, i)
        /\ ~WellFormed(f[KnownLocations(v)[i]])

\* C9, as stated: a backing file that is there but cannot be read or parsed
\* gives a 500 response in every variant.
C9_AsStated ==
    (response # NoResponse /\ FirstFoundBroken(response.variant, response.fsAt)) =>
        response.status = 500

\* C9, amended: a backing file that is there but cannot be read or parsed
\* gives status 500 with the failure body in the not-found variant, and the
\* mock snapshot with status 200 in the fallback variant.
C9_Broken ==
    (response # NoResponse /\ FirstFoundBroken(response.variant, response.fsAt)) =>
        IF response.variant = "notfound"
        THEN response.status = 500 /\ response.body = ErrFailed
        ELSE response.status = 200 /\ response.body = MockData

\* the fallback variant, a malformed file first and a good one after it
C9_Witness ==
    /\ response # NoResponse /\ response.variant = "fallback"
    /\ response.fsAt[PublicPath] = TextFile("garbage")
    /\ response.fsAt[DataPath] = TextFile("snapA")
    /\ response.body = MockData

(***************************************************************************)
(* Properties of the page's fetch (checked under SpecLive)                 *)
(***************************************************************************)

\* the fetch has failed: the promise chain is rejected, or was and has
\* been caught
FetchFailed == fetchPc = "rejected" \/ errorLogged

\* C10: when the fetch fails the error is logged, data stays null, the page
\* leaves the loading state and shows the empty dashboard, and there is no
\* second fetch: one fetch per page view, and data is null for the rest of it.
C10_FetchFailure ==
    /\ [](fetchCount <= 1)
    /\ [](FetchFailed => data = Null /\ fetchCount = 1)
    /\ []((FetchFailed /\ fetchPc = "done") =>
             errorLogged /\ ~loading /\ HomeView(loading, data) = "empty")
    /\ (FetchFailed ~> (fetchPc = "done"))

\* the failed fetch has settled and the visitor has used the navigation since
C10_Witness ==
    /\ FetchFailed /\ fetchPc = "done" /\ errorLogged /\ ~loading
    /\ data = Null /\ fetchCount = 1 /\ timers > 0 /\ activeSection = "goals"

(***************************************************************************)
(* Properties of the page view (checked under SpecView and Spec)           *)
(***************************************************************************)

\* C11: the snapshot in data is written at most once per page view: only by
\* the fetch's success handler, from null to the fetched value, while loading
\* is still true; no navigation click, scroll event, pacing input or TBR
\* pick changes it afterwards.
C11_DataWrittenOnce ==
    [][data' # data =>
          /\ fetchPc = "parsed" /\ fetchPc' = "fulfilled"
          /\ data = Null /\ data' = fetched /\ data' # Null
          /\ loading /\ loading']_vars

\* the snapshot has arrived and the visitor has used the pacing calculator
C11_Witness ==
    /\ data = SnapshotA /\ ~loading /\ fetchPc = "done"
    /\ selectedBook # "" /\ currentPage > 0 /\ pacing # Null

(***************************************************************************)
(* Properties of the TBR randomizer (checked under Spec)                   *)
(***************************************************************************)

\* C12: with an empty TBR list pickRandomBook selects nothing, however often
\* it is invoked: selectedBook stays null, isSpinning stays false and no
\* timeout is pending.
C12_EmptyList ==
    Len(tbrListOf(data)) = 0 =>
        tbrSelected = Null /\ isSpinning = FALSE /\ spinTimers = 0

\* the randomizer is rendered with an empty list and pickRandomBook has been
\* invoked as often as the model lets it
C12_Witness ==
    /\ ElementExists(HomeView(loading, data)) /\ Len(tbrListOf(data)) = 0
    /\ picks = MaxPicks /\ picks >= 2

\* the entries of a list
Entries(list) == {list[i] : i \in DOMAIN list}

\* C13: with N >= 1 entries every drawn index floor(r x N) lies in 0..N-1,
\* after a completed pick selectedBook is an entry of the list, and whenever
\* a pick is pending every entry of the list is a possible outcome of it,
\* whatever was selected before.
C13_EveryEntry ==
    LET list == tbrListOf(data)
        N    == Len(list)
    IN  N >= 1 =>
          /\ \A r \in RandomValues : randomIndexOf(r, N) \in 0..(N - 1)
          /\ picks > spinTimers => tbrSelected \in Entries(list)
          /\ spinTimers > 0 =>
                \A i \in 1..N : ENABLED (SpinTimerFires /\ tbrSelected' = list[i])

\* a pick is pending on the twelve-entry list while the last entry of the
\* list is the one selected by an earlier pick
C13_Witness ==
    /\ Len(tbrListOf(data)) = 12 /\ spinTimers > 0
    /\ tbrSelected = tbrListOf(data)[12]

(***************************************************************************)
(* Properties of concurrent requests (checked under SpecConcurrent)        *)
(***************************************************************************)

\* C14: the GET handlers never write the backing files and share nothing:
\* however the steps of concurrent requests interleave over files that stay
\* as they are, each request ends with the response it gets when run alone.
C14_SameAsAlone ==
    /\ [][fs' = fs]_vars
    /\ [](\A s \in Slots :
            (inflight[s] # NoRequest /\ inflight[s].resp # NoResponse) =>
                inflight[s].resp = GET(inflight[s].variant, fs))

\* one request has ended with the file found at the third location while
\* another one is still on its way through the locations
C14_Witness ==
    /\ inflight[1] # NoRequest /\ inflight[1].resp = NextResponseJson(SnapshotA, 200)
    /\ fs[ParentPath] = TextFile("snapA") /\ ~existsSync(fs, DataPath)
    /\ inflight[2] # NoRequest /\ inflight[2].resp = NoResponse /\ inflight[2].i = 2

(***************************************************************************)
(* Properties of the snapshots the data supplier builds (under SpecHome)   *)
(***************************************************************************)

\* what the backing files can hold
FileContents == {JSONParse(t).value : t \in {u \in FileTexts : JSONParse(u).ok}}

\* a response body that the supplier built itself: neither the content of a
\* backing file nor an error body
SelfBuilt(body) == body \notin FileContents /\ body \notin {ErrNotFound, ErrFailed}

Calendar == << "Jan", "Feb", "Mar", "Apr", "May", "Jun",
              "Jul", "Aug", "Sep", "Oct", "Nov", "Dec" >>

\* C15 as stated: every snapshot the supplier builds itself has byMonth as
\* exactly 12 records, Jan to Dec in calendar order, with non-negative values.
C15_AsStated ==
    SelfBuilt(fetched) =>
        LET bm == fetched.byMonth
        IN  /\ Len(bm) = 12
            /\ \A i \in DOMAIN bm :
                  /\ bm[i].month = Calendar[i]
                  /\ bm[i].count >= 0
                  /\ "pages" \in DOMAIN bm[i] /\ bm[i].pages >= 0

\* C15: the fallback mock of /api/refresh has byMonth as exactly 12 records,
\* Jan to Dec in calendar order, with non-negative count and pages; the mock
\* of /api/overview has the 6 records Jan to Jun, in calendar order, each
\* with a non-negative count and without a pages value.
C15_Mocks ==
    SelfBuilt(fetched) =>
        LET bm == fetched.byMonth
        IN  /\ Len(bm) = IF apiUrl = RefreshUrl THEN 12 ELSE 6
            /\ \A i \in DOMAIN bm :
                  /\ bm[i].month = Calendar[i]
                  /\ bm[i].count >= 0
                  /\ IF apiUrl = RefreshUrl
                     THEN "pages" \in DOMAIN bm[i] /\ bm[i].pages >= 0
                     ELSE "pages" \notin DOMAIN bm[i]

\* the earlier Home has been given the mock of /api/overview
C15_Witness ==
    /\ apiUrl = OverviewUrl /\ SelfBuilt(fetched) /\ data = fetched /\ ~loading
    /\ Len(data.byMonth) = 6

(***************************************************************************)
(* Properties of the Vue front-end's routing (checked under SpecRouter)    *)
(***************************************************************************)

FourPaths == {"/", "/bookshelf", "/progress", "/atoz"}

\* C16: once the application has started, the router defines exactly the
\* four paths /, /bookshelf, /progress and /atoz, every link of the sidebar
\* targets one of them, and the location shown is always a defined route.
C16_FourPaths ==
    router # Null =>
        /\ Mounted(router)
        /\ Len(router.routes) = 4 /\ PathsOf(router) = FourPaths
        /\ \A k \in DOMAIN SidebarLinks : SidebarLinks[k] \in PathsOf(router)
        /\ \A h \in DOMAIN history : history[h] \in PathsOf(router)

(***************************************************************************)
(* Properties of the loading state (checked under SpecHomeLive)            *)
(***************************************************************************)

\* the fetch has an outcome: a body was parsed, or the request or the
\* parsing of its body failed
FetchSettled == fetchPc \in {"parsed", "rejected"}

\* C17: whatever the outcome of the fetch (success, network failure, body
\* that does not parse), loading eventually becomes false, and once false it
\* never becomes true again in that page view.
C17_LoadingEnds ==
    /\ FetchSettled ~> ~loading
    /\ [][~loading => ~loading']_vars

\* the earlier Home, which has no .catch, after a failed fetch: loading is
\* false, nothing was logged and data is null
C17_Witness ==
    /\ apiUrl = OverviewUrl /\ fetchPc = "done" /\ ~loading
    /\ data = Null /\ ~errorLogged /\ fetchCount = 1

(***************************************************************************)
(* Properties of what the page stores (checked under Spec)                 *)
(***************************************************************************)

\* C18: data is null or a snapshot that the data supplier sent with a
\* success status; the error body of a 404 or 500 response is never stored.
C18_OnlySnapshots ==
    \/ data = Null
    \/ /\ data \notin {ErrNotFound, ErrFailed}
       /\ \E r \in ServerResponses : r.status = 200 /\ r.body = data

(***************************************************************************)
(* Properties of the data supplier, continued (checked under SpecRefresh)  *)
(***************************************************************************)

\* C19: when the first known location that exists holds a file that cannot
\* be read or parsed, and a location after it holds a well-formed one, the
\* response is never the content of the later file: it is the 500 of the
\* not-found variant or the mock snapshot of the fallback variant.
C19_NotSkipped ==
    response # NoResponse =>
        LET v == response.variant
            f == response.fsAt
            K == KnownLocations(v)
        IN  \A i \in 1..Len(K) : \A j \in (i + 1)..Len(K) :
                (IsFirstFound(v, f, i) /\ ~WellFormed(f[K[i]]) /\ WellFormed(f[K[j]])) =>
                    /\ response.body # JSONParse(f[K[j]].text).value
                    /\ v = "notfound" => response.status = 500
                    /\ v = "fallback" => response.body = MockData

\* the not-found variant, an unreadable file in public/ and a good one in
\* data/
C19_Witness ==
    /\ response # NoResponse /\ response.variant = "notfound"
    /\ response.fsAt[PublicPath] = Unreadable
    /\ response.fsAt[DataPath] = TextFile("snapA")
    /\ response.status = 500

(***************************************************************************)
(* Properties of the forecast, continued (checked under SpecForecast)      *)
(***************************************************************************)

\* C20: in every month completedMonths = currentMonth - 1 and
\* monthsRemaining = 12 - currentMonth, both lie in 0..11 and add up to 11
\* (the current month is in neither), and in December the projection is the
\* year-to-date totals.
C20_Months ==
    forecast # Null =>
        /\ forecast.completedMonths = currentMonth - 1
        /\ forecast.monthsRemaining = 12 - currentMonth
        /\ forecast.completedMonths \in 0..11
        /\ forecast.monthsRemaining \in 0..11
        /\ forecast.completedMonths + forecast.monthsRemaining = 11
        /\ currentMonth = 12 =>
              /\ forecast.estimatedBooks = fdata.totals.books
              /\ forecast.estimatedPages = fdata.totals.pages

\* December, with 43 books and 13760 pages read
C20_Witness ==
    /\ currentMonth = 12 /\ forecast # Null
    /\ fdata.totals.books = 43 /\ forecast.estimatedBooks = 43
    /\ forecast.estimatedPages = 13760 /\ forecast.monthsRemaining = 0

\* C21 as stated: in every month, January included, the year-end estimates
\* are at least what has already been read.
C21_AsStated ==
    forecast # Null =>
        /\ forecast.estimatedBooks >= fdata.totals.books
        /\ forecast.estimatedPages >= fdata.totals.pages

\* C21: in every month other than January the year-end estimates are at
\* least what has already been read; in January the estimates are last
\* year's totals (0 without them), so they are at least the year-to-date
\* totals only when last year's totals are.
C21_NotBelow ==
    forecast # Null =>
        IF currentMonth # 1
        THEN /\ forecast.estimatedBooks >= fdata.totals.books
             /\ forecast.estimatedPages >= fdata.totals.pages
        ELSE /\ forecast.estimatedBooks >= fdata.totals.books
                    <=> lastYearBooks(fdata) >= fdata.totals.books
             /\ forecast.estimatedPages >= fdata.totals.pages
                    <=> lastYearPages(fdata) >= fdata.totals.pages

\* November, 43 books and 13760 pages read: one month to come, so the
\* estimates are above the totals
C21_Witness ==
    /\ forecast # Null /\ currentMonth = 11
    /\ fdata.totals.books = 43 /\ forecast.estimatedBooks = 47
    /\ fdata.totals.pages = 13760 /\ forecast.estimatedPages = 15136

\* C22: the forecast never divides by zero.  Outside January at least one
\* month is completed (and the rate would be 0 if none were); every quotient
\* it computes has a non-zero divisor; averageBookLength is totals.pages /
\* totals.books when totals.books > 0 and totals.pages is non-zero, and 320
\* otherwise, so it is greater than 0.
C22_NoDivisionByZero ==
    forecast # Null =>
        /\ currentMonth # 1 => forecast.completedMonths >= 1
        /\ RunRate(fdata.totals.books, 0) = Quotient(0, 1)
        /\ forecast.booksPerMonth.den > 0
        /\ forecast.pagesPerMonth.den > 0
        /\ forecast.averageBookLength.den > 0
        /\ forecast.averageBookLength.num > 0
        /\ IF fdata.totals.books > 0 /\ fdata.totals.pages # 0
           THEN forecast.averageBookLength.num * fdata.totals.books =
                    fdata.totals.pages * forecast.averageBookLength.den
           ELSE forecast.averageBookLength.num = 320 * forecast.averageBookLength.den

\* February, pages read but no book finished: the average book length is
\* the default
C22_Witness ==
    /\ forecast # Null /\ currentMonth = 2
    /\ fdata.totals.books = 0 /\ fdata.totals.pages = 320
    /\ forecast.averageBookLength = Quotient(320, 1)
    /\ forecast.estimatedBooksFromPages = 11

\* C23: outside January, for totals with totals.pages >= totals.books > 0,
\* the cross-check round(estimatedPages / averageBookLength) differs from
\* estimatedBooks by at most 1.
C23_CrossCheck ==
    (forecast # Null /\ currentMonth # 1
        /\ fdata.totals.books > 0 /\ fdata.totals.pages >= fdata.totals.books) =>
        /\ IsRounded(forecast.estimatedBooksFromPages,
                     Quotient(forecast.estimatedPages * forecast.averageBookLength.den,
                              forecast.averageBookLength.num))
        /\ forecast.estimatedBooksFromPages - forecast.estimatedBooks \in {-1, 0, 1}

\* July, 3 books and 4 pages: the estimate is 6 books, the cross-check 5
C23_Witness ==
    /\ forecast # Null /\ currentMonth = 7
    /\ fdata.totals.books = 3 /\ fdata.totals.pages = 4
    /\ forecast.estimatedBooks = 6 /\ forecast.estimatedPages = 7
    /\ forecast.estimatedBooksFromPages = 5

(***************************************************************************)
(* Properties of the pacing calculator, continued (under SpecPacing)       *)
(***************************************************************************)

\* C24: a change of the selected book sets currentPage to 0 and leaves the
\* timeframe and the custom goal date as they were, so right after it no
\* pacing result is shown; a result is shown only once the current page is
\* strictly between 0 and the selected book's total pages.
C24_BookChange ==
    [][/\ selectedBook' # selectedBook =>
             /\ currentPage' = 0 /\ pacing' = Null
             /\ timeframe' = timeframe /\ goalDate' = goalDate
       /\ pacing' # Null =>
             /\ selectedBookData(books', selectedBook') # Null
             /\ currentPage' > 0
             /\ currentPage' < selectedBookData(books', selectedBook').totalPages]_vars

\* a book is selected and no page entered, under a custom goal date that
\* was set before
C24_Witness ==
    /\ selectedBook = "Dune" /\ currentPage = 0 /\ pacing = Null
    /\ timeframe = "custom" /\ goalDate # NoGoalDate /\ today > 0

(***************************************************************************)
(* Properties of the TBR randomizer, continued (under Spec and SpecLive)   *)
(***************************************************************************)

\* C25: isSpinning is true exactly while a pick is pending: true from a
\* click on a non-empty list on, and false only when no scheduled timeout is
\* outstanding, also when the button is clicked again before an earlier
\* timeout has fired.
C25_SpinningWhilePending == isSpinning <=> spinTimers > 0

\* C26: after a click on a non-empty list the pick completes: the spinner
\* stops with selectedBook an entry of the list; and once a book is selected,
\* selectedBook never is null again in that page view.
C26_PickCompletes ==
    /\ (isSpinning /\ spinTimers > 0) ~>
           (~isSpinning /\ tbrSelected \in Entries(tbrListOf(data)))
    /\ [][tbrSelected # Null => tbrSelected' # Null]_vars

\* both picks of a page view have completed on the twelve-entry list
C26_Witness ==
    /\ Len(tbrListOf(data)) = 12 /\ picks >= 2 /\ spinTimers = 0 /\ ~isSpinning
    /\ tbrSelected = tbrListOf(data)[1]

(***************************************************************************)
(* Properties of the navigation (under Spec)                               *)
(***************************************************************************)

SectionIds == {"top", "stats", "goals", "genres", "authors", "predictions"}

\* C27: activeSection starts as "top" and is one of the six section ids in
\* every reachable state, whatever clicks, scroll events and delayed
\* re-evaluations happened.
C27_ActiveSection == activeSection = "top" /\ [](activeSection \in SectionIds)

\* a click on "predictions" after a scroll event, its re-evaluation pending
C27_Witness == activeSection = "predictions" /\ scrollY = 570 /\ timers = 1

\* the positions, in the order of the claim, of the sections that exist and
\* start at most 130 px below the top of the viewport at scroll position y
Qualifying(y) ==
    LET order == << "top", "stats", "goals", "genres", "authors", "predictions" >>
    IN  {i \in 1..6 : /\ ElementExists(HomeView(loading, data))
                      /\ offsetTop[order[i]] - y <= 130}

LastQualifying(y) ==
    LET order == << "top", "stats", "goals", "genres", "authors", "predictions" >>
        last  == CHOOSE i \in Qualifying(y) : \A j \in Qualifying(y) : j <= i
    IN  order[last]

\* C28: a scroll event, and the re-evaluation 1000 ms after a click, make the
\* last qualifying section the active one, and leave activeSection as it is
\* when no section qualifies.
C28_LastQualifying ==
    [][(scrollY' # scrollY \/ timers' < timers) =>
          activeSection' = IF Qualifying(scrollY') = {} THEN activeSection
                           ELSE LastQualifying(scrollY')]_vars

\* genres and authors start at the same height: the later one, authors, is
\* active once both qualify, with no re-evaluation pending
C28_Witness == scrollY = 2070 /\ activeSection = "authors" /\ timers = 0 /\ fetchPc = "done"

(***************************************************************************)
(* Properties of the dashboard's figures (under SpecDashboard)             *)
(***************************************************************************)

\* n is 100 * count / total rounded to the nearest integer, halves up; 0
\* when total is 0
IsPercentOf(n, count, total) ==
    IF total = 0 THEN n = 0
    ELSE /\ 2 * total * n <= 200 * count + total
         /\ 200 * count + total < 2 * total * (n + 1)

IsFirstMax(card, shown, byMonth, field) ==
    LET values == {byMonth[i][field] : i \in DOMAIN byMonth}
    IN  IF byMonth = << >> \/ \A v \in values : v = 0
        THEN card.month = "None" /\ shown = 0
        ELSE \E i \in DOMAIN byMonth :
                 /\ \A v \in values : v <= byMonth[i][field]
                 /\ byMonth[i][field] > 0
                 /\ \A j \in 1..(i - 1) : byMonth[j][field] < byMonth[i][field]
                 /\ card.month = byMonth[i].month
                 /\ shown = byMonth[i][field]

\* C30: the "Most books read" card shows the first month of byMonth whose
\* count is the largest, if that is more than 0, and "None" with 0 when
\* byMonth is empty or every count is 0; the "Most pages read" card is chosen
\* the same way on pages.
C30_ChartStats ==
    figures # Null =>
        /\ IsFirstMax(figures.mostBooks, figures.mostBooks.count, ddata.byMonth, "count")
        /\ IsFirstMax(figures.mostPages, figures.mostPages.pages, ddata.byMonth, "pages")

\* February and March tie on books, March and April on pages: the earlier
\* month of each tie is shown
C30_Witness ==
    /\ figures # Null
    /\ Len(ddata.byMonth) = 4
    /\ ddata.byMonth[2].count = 3 /\ ddata.byMonth[3].count = 3
    /\ figures.mostBooks = [month |-> "Feb", count |-> 3]
    /\ figures.mostPages = [month |-> "Mar", pages |-> 1200]

====
